---------------------------- MODULE Spec2Model ----------------------------
(***************************************************************************)
(* prediction-confidence (src/conf.cpp): a two-sided confidence score for  *)
(* an observation of a normal distribution, read from a cumulative table   *)
(* that is built once by trapezoidal integration of the density.           *)
(*                                                                         *)
(* The program computes in IEEE-754 binary32 (float) and, where a double   *)
(* literal takes part in an expression, in binary64 (double).  The model   *)
(* keeps that arithmetic bit for bit, rounding to nearest, ties to even:   *)
(*   a float  is <<s, m, e>>, the value (-1)^s * m * 2^e with m < 2^24,    *)
(*            m >= 2^23 unless e = -149 (subnormal, zero);                 *)
(*   a double is <<s, D, e>>, D nine base-64 digits (most significant      *)
(*            first, the first >= 32, the last even: 53 significant bits), *)
(*            the value (-1)^s * D * 2^e, or the empty D for zero.         *)
(* TLC's integers are 32 bits wide, so binary32 products and quotients are *)
(* formed in limbs and binary64 significands digit by digit.               *)
(***************************************************************************)
EXTENDS Integers, Sequences, FiniteSets, TLC

----------------------------------------------------------------------------
(* Powers of two and bit lengths of naturals below 2^31.                   *)

Pow2 == [k \in 0..30 |-> 2^k]

P2(k) == Pow2[k]

BL8(n) ==
  IF n < 16
  THEN (IF n < 4 THEN (IF n < 2 THEN n ELSE 2) ELSE (IF n < 8 THEN 3 ELSE 4))
  ELSE (IF n < 64 THEN (IF n < 32 THEN 5 ELSE 6) ELSE (IF n < 128 THEN 7 ELSE 8))

BitLen(n) ==
  IF n < 65536
  THEN (IF n < 256 THEN BL8(n) ELSE 8 + BL8(n \div 256))
  ELSE (IF n < 16777216 THEN 16 + BL8(n \div 65536) ELSE 24 + BL8(n \div 16777216))

----------------------------------------------------------------------------
(* binary32.                                                               *)

MantBits == 24
EMin == -149
EMax == 104
TwoP23 == 2^23
TwoP24 == 2^24

FZero == <<0, 0, EMin>>
FInf(s) == <<s, 0, EMax + 1>>
FNaN == <<0, 1, EMax + 1>>

IsInf(a) == a[3] = EMax + 1 /\ a[2] = 0
IsNaN(a) == a[3] = EMax + 1 /\ a[2] # 0
IsZero(a) == a[2] = 0 /\ a[3] = EMin
IsFinite(a) == a[3] <= EMax

\* The float (-1)^s * m * 2^e, or infinity when e is past the largest exponent.
Fin(s, m, e) == IF e > EMax THEN FInf(s) ELSE <<s, m, e>>

\* Round (-1)^s * (q + r / (2 * h)) * 2^e, where r < 2 * h, to the nearest
\* float with exponent e, ties to even; st says that more was cut off below r.
RoundUp(s, q, r, h, st, e) ==
  IF r > h \/ (r = h /\ (st \/ (q % 2) = 1))
  THEN (IF q + 1 = TwoP24 THEN Fin(s, TwoP23, e + 1) ELSE Fin(s, q + 1, e))
  ELSE Fin(s, q, e)

\* Round (-1)^s * (M + f) * 2^(e - k) to the exponent e.
RoundShift(s, M, st, e, k) ==
  IF k <= 0 THEN Fin(s, M * P2(-k), e)
  ELSE IF k > 31 THEN <<s, 0, EMin>>
  ELSE IF k = 31 THEN RoundUp(s, 0, M, 1073741824, st, e)
  ELSE RoundUp(s, M \div P2(k), M % P2(k), P2(k - 1), st, e)

\* Round (-1)^s * (M + f) * 2^E, M of L bits, to the exponent of a 24-bit
\* significand, or to the least exponent.
RoundLen(s, M, E, st, L) ==
  IF E + L - MantBits < EMin
  THEN RoundShift(s, M, st, EMin, EMin - E)
  ELSE RoundShift(s, M, st, E + L - MantBits, L - MantBits)

\* Round (-1)^s * (M + f) * 2^E to binary32, where 0 <= M < 2^31 and the
\* fraction f is 0 when st is FALSE and some 0 < f < 1 when st is TRUE.
RoundPack(s, M, E, st) ==
  IF M = 0 THEN <<s, 0, EMin>> ELSE RoundLen(s, M, E, st, BitLen(M))

\* |a| < |b|, |a| <= |b| for finite a, b.
MagLt(a, b) == a[3] < b[3] \/ (a[3] = b[3] /\ a[2] < b[2])
MagLe(a, b) == a[3] < b[3] \/ (a[3] = b[3] /\ a[2] <= b[2])

\* a < b, a <= b, a = b on floats (false when either is a NaN; -0 = +0).
FLt(a, b) ==
  IF IsNaN(a) \/ IsNaN(b) THEN FALSE
  ELSE IF a[2] = 0 /\ b[2] = 0 /\ a[3] = EMin /\ b[3] = EMin THEN FALSE
  ELSE IF a[1] # b[1] THEN a[1] = 1
  ELSE IF a[1] = 0 THEN MagLt(a, b) ELSE MagLt(b, a)

FEq(a, b) ==
  IF IsNaN(a) \/ IsNaN(b) THEN FALSE
  ELSE (IsZero(a) /\ IsZero(b)) \/ a = b

FLe(a, b) == FLt(a, b) \/ FEq(a, b)
FGt(a, b) == FLt(b, a)
FGe(a, b) == FLe(b, a)

FNeg(a) == <<1 - a[1], a[2], a[3]>>
FAbs(a) == <<0, a[2], a[3]>>

\* |a| + |b| with sign s, for finite a, b with |a| >= |b|.
AddMag(s, a, b) ==
  LET d == a[3] - b[3]
  IN IF d <= 6 THEN RoundPack(s, a[2] * P2(d) + b[2], b[3], FALSE)
     ELSE LET sh == d - 6
              B  == IF sh > 24 THEN 0 ELSE b[2] \div P2(sh)
              st == IF sh > 24 THEN b[2] # 0 ELSE (b[2] % P2(sh)) # 0
          IN RoundPack(s, a[2] * 64 + B, a[3] - 6, st)

\* |a| - |b| with sign s, for finite a, b with |a| >= |b|.
SubMag(s, a, b) ==
  LET d == a[3] - b[3]
  IN IF d <= 6
     THEN LET M == a[2] * P2(d) - b[2]
          IN IF M = 0 THEN FZero ELSE RoundPack(s, M, b[3], FALSE)
     ELSE LET sh == d - 6
              B  == IF sh > 24 THEN 0 ELSE b[2] \div P2(sh)
              st == IF sh > 24 THEN b[2] # 0 ELSE (b[2] % P2(sh)) # 0
          IN RoundPack(s, a[2] * 64 - B - (IF st THEN 1 ELSE 0), a[3] - 6, st)

\* a + b
FAdd(a, b) ==
  IF IsNaN(a) \/ IsNaN(b) THEN FNaN
  ELSE IF IsInf(a) THEN (IF IsInf(b) /\ a[1] # b[1] THEN FNaN ELSE a)
  ELSE IF IsInf(b) THEN b
  ELSE IF a[1] = b[1]
       THEN (IF MagLe(b, a) THEN AddMag(a[1], a, b) ELSE AddMag(a[1], b, a))
       ELSE (IF MagLe(b, a) THEN SubMag(a[1], a, b) ELSE SubMag(b[1], b, a))

\* a - b
FSub(a, b) == FAdd(a, FNeg(b))

\* a * b
FMul(a, b) ==
  LET s == IF a[1] = b[1] THEN 0 ELSE 1
  IN IF IsNaN(a) \/ IsNaN(b) THEN FNaN
     ELSE IF IsInf(a) \/ IsInf(b)
          THEN (IF IsZero(a) \/ IsZero(b) THEN FNaN ELSE FInf(s))
     ELSE IF a[2] = 0 \/ b[2] = 0 THEN <<s, 0, EMin>>
     ELSE LET a1  == a[2] \div 4096
              a0  == a[2] % 4096
              b1  == b[2] \div 4096
              b0  == b[2] % 4096
              lo  == a0 * b0
              u   == a1 * b0 + a0 * b1 + (lo \div 4096)
              Phi == a1 * b1 + (u \div 4096)
              Plo == (u % 4096) * 4096 + (lo % 4096)
              L   == BitLen(Phi)
          IN IF L <= 6 THEN RoundPack(s, Phi * TwoP24 + Plo, a[3] + b[3], FALSE)
             ELSE LET sh == L - 6
                  IN RoundPack(s, Phi * P2(24 - sh) + (Plo \div P2(sh)),
                               a[3] + b[3] + sh, (Plo % P2(sh)) # 0)

\* Long division, six bits a step: Q is the quotient so far, r < y the remainder.
RECURSIVE DivLoop(_, _, _, _, _)
DivLoop(s, Q, r, y, E) ==
  IF Q >= TwoP24 \/ r = 0 THEN RoundPack(s, Q, E, r # 0)
  ELSE LET t == r * 64
       IN DivLoop(s, Q * 64 + (t \div y), t % y, y, E - 6)

\* a / b
FDiv(a, b) ==
  LET s == IF a[1] = b[1] THEN 0 ELSE 1
  IN IF IsNaN(a) \/ IsNaN(b) THEN FNaN
     ELSE IF IsInf(a) THEN (IF IsInf(b) THEN FNaN ELSE FInf(s))
     ELSE IF IsInf(b) THEN <<s, 0, EMin>>
     ELSE IF b[2] = 0 THEN (IF a[2] = 0 THEN FNaN ELSE FInf(s))
     ELSE IF a[2] = 0 THEN <<s, 0, EMin>>
     ELSE DivLoop(s, a[2] \div b[2], a[2] % b[2], b[2], a[3] - b[3])

\* The conversion int -> float.
FromInt(n) ==
  IF n < -2147483647 THEN <<1, TwoP23, 8>>
  ELSE IF n < 0 THEN RoundPack(1, -n, 0, FALSE) ELSE RoundPack(0, n, 0, FALSE)

\* Whether the truncation of a fits an int.
FitsInt(a) == IsFinite(a) /\ (a[3] < 8 \/ a[2] = 0)

\* The conversion float -> int (truncation toward zero), for a with FitsInt(a).
ToInt(a) ==
  LET mag == IF a[3] >= 0 THEN a[2] * P2(a[3])
             ELSE IF a[3] < -30 THEN 0 ELSE a[2] \div P2(-a[3])
  IN IF a[1] = 1 THEN -mag ELSE mag

\* The 32-bit word that holds the float a (its IEEE-754 encoding, read as a
\* two's-complement int), and the float that a word holds.
Bits(a) ==
  LET mag == IF a[3] = EMax + 1 THEN 2139095040 + (IF a[2] = 0 THEN 0 ELSE 4194304)
             ELSE IF a[2] < TwoP23 THEN a[2]
             ELSE (a[3] + 150) * TwoP23 + (a[2] - TwoP23)
  IN IF a[1] = 1 THEN (mag - 2147483647) - 1 ELSE mag

OfBits(w) ==
  LET s   == IF w < 0 THEN 1 ELSE 0
      mag == IF w < 0 THEN (w + 2147483647) + 1 ELSE w
      ex  == mag \div TwoP23
      fr  == mag % TwoP23
  IN IF ex = 255 THEN (IF fr = 0 THEN FInf(s) ELSE FNaN)
     ELSE IF ex = 0 THEN <<s, fr, EMin>>
     ELSE <<s, fr + TwoP23, ex - 150>>

----------------------------------------------------------------------------
(* binary64, as far as the program uses it: a double divided by a float,   *)
(* a double times a float, and the conversions float <-> double.           *)

DZero(s) == <<s, <<>>, 0>>

\* The digits D without their leading zeros.
Strip(D) ==
  IF \A i \in 1..Len(D) : D[i] = 0 THEN <<>>
  ELSE LET f == CHOOSE i \in 1..Len(D) : D[i] # 0 /\ \A j \in 1..(i - 1) : D[j] = 0
       IN SubSeq(D, f, Len(D))

\* D * 2^c for the c < 6 that brings the first digit of D (nonzero) to 32..63.
ScaleUp(D) ==
  LET c == 6 - BL8(D[1])
      n == Len(D)
  IN <<[i \in 1..n |-> ((D[i] * P2(c)) % 64)
                        + (IF i < n THEN D[i + 1] \div P2(6 - c) ELSE 0)], c>>

\* D + 2 for nine digits D with an even last digit; <<digits, carry out>>.
Inc2(D) ==
  IF D[9] + 2 < 64 THEN <<[D EXCEPT ![9] = D[9] + 2], 0>>
  ELSE IF \A j \in 1..8 : D[j] = 63 THEN <<[i \in 1..9 |-> IF i = 1 THEN 32 ELSE 0], 1>>
  ELSE LET j == CHOOSE k \in 1..8 : D[k] < 63 /\ \A l \in (k + 1)..8 : D[l] = 63
       IN <<[i \in 1..9 |-> IF i < j THEN D[i] ELSE IF i = j THEN D[j] + 1 ELSE 0], 0>>

\* Round (-1)^s * (D + f) * 2^e to binary64: D digits with the first >= 32, and
\* the fraction f zero when st is FALSE, some 0 < f < 1 when st is TRUE.
Round53(s, D, e, st) ==
  LET n == Len(D)
  IN IF n < 9 THEN <<s, D \o [i \in 1..(9 - n) |-> 0], e - 6 * (9 - n)>>
     ELSE LET rb     == D[9] % 2
              sticky == st \/ \E i \in 10..n : D[i] # 0
              lsb    == (D[9] \div 2) % 2
              keep   == [i \in 1..9 |-> IF i = 9 THEN D[9] - rb ELSE D[i]]
              up     == rb = 1 /\ (sticky \/ lsb = 1)
              e9     == e + 6 * (n - 9)
          IN IF up THEN LET r == Inc2(keep) IN <<s, r[1], e9 + r[2]>>
             ELSE <<s, keep, e9>>

\* Digits D (any number, possibly with leading zeros) times 2^e, as a double.
DPack(s, D, e, st) ==
  LET S == Strip(D)
  IN IF S = <<>> THEN DZero(s)
     ELSE LET N == ScaleUp(S) IN Round53(s, N[1], e - N[2], st)

\* The conversion float -> double (exact), for finite a.
FToD(a) ==
  IF a[2] = 0 THEN DZero(a[1])
  ELSE DPack(a[1], <<a[2] \div 262144, (a[2] \div 4096) % 64,
                     (a[2] \div 64) % 64, a[2] % 64>>, a[3], FALSE)

\* The conversion double -> float (rounding).
DToF(X) ==
  IF X[2] = <<>> THEN <<X[1], 0, EMin>>
  ELSE LET D == X[2]
           M == (((D[1] * 64 + D[2]) * 64 + D[3]) * 64 + D[4]) * 64 + D[5]
       IN RoundPack(X[1], M, X[3] + 24, \E i \in 6..9 : D[i] # 0)

\* Long division of the digits N by y < 2^24, a digit a step: <<quotient, remainder>>.
RECURSIVE DivDigits(_, _, _, _, _)
DivDigits(N, i, r, y, Q) ==
  IF i > Len(N) THEN <<Q, r>>
  ELSE LET t == r * 64 + N[i]
       IN DivDigits(N, i + 1, t % y, y, Append(Q, t \div y))

\* X / b for a double X and a finite nonzero float b (converted to double).
DDivF(X, b) ==
  LET s == IF X[1] = b[1] THEN 0 ELSE 1
  IN IF X[2] = <<>> THEN DZero(s)
     ELSE LET q == DivDigits(X[2] \o <<0, 0, 0, 0, 0, 0>>, 1, 0, b[2], <<>>)
          IN DPack(s, q[1], X[3] - b[3] - 36, q[2] # 0)

\* The digits of a product, least significant column first: column p of the
\* nine digits x and the four digits y, plus the carry c.
RECURSIVE MulCarry(_, _, _, _, _)
MulCarry(x, y, p, c, acc) ==
  IF p = 0 THEN <<c \div 64, c % 64>> \o acc
  ELSE LET Dg(i) == IF i >= 1 /\ i <= 9 THEN x[i] ELSE 0
           t == Dg(p) * y[1] + Dg(p - 1) * y[2] + Dg(p - 2) * y[3] + Dg(p - 3) * y[4] + c
       IN MulCarry(x, y, p - 1, t \div 64, <<t % 64>> \o acc)

\* X * b for a double X and a finite float b (converted to double).
DMulF(X, b) ==
  LET s == IF X[1] = b[1] THEN 0 ELSE 1
  IN IF X[2] = <<>> \/ b[2] = 0 THEN DZero(s)
     ELSE LET y == <<b[2] \div 262144, (b[2] \div 4096) % 64, (b[2] \div 64) % 64, b[2] % 64>>
          IN DPack(s, MulCarry(X[2], y, 12, 0, <<>>), X[3] + b[3], FALSE)

\* The double literals 1. and -0.5 .
DOne == FToD(<<0, TwoP23, -23>>)
DMinusHalf == FToD(<<1, TwoP23, -24>>)

----------------------------------------------------------------------------
(* NormalDistributionParams, Limits and the literals of the source.        *)

\* static constexpr float kMean = 0.043; kStdev = 0.026;
kMean == FDiv(FromInt(43), FromInt(1000))
kStdev == FDiv(FromInt(26), FromInt(1000))

\* constexpr float kAccuracy = 1e-6;
kAccuracy == FDiv(FromInt(1), FromInt(1000000))

\* constexpr float e = 2.718281828459045;  (the float 11401300 * 2^-22)
Euler_e == <<0, 11401300, -22>>

\* constexpr float kRootOf2Pi = 2.50662827463;  (the float 10513561 * 2^-22)
kRootOf2Pi == <<0, 10513561, -22>>

\* Confidence<10000, ...>
kPoints == 10000

\* kLower = kMean - 6 * kStdev; kUpper = kMean + 6 * kStdev;
kLower == FSub(kMean, FMul(FromInt(6), kStdev))
kUpper == FAdd(kMean, FMul(FromInt(6), kStdev))

\* kDelta = (kUpper - kLower) / kPoints;
kDelta == FDiv(FSub(kUpper, kLower), FromInt(kPoints))

----------------------------------------------------------------------------
(* NormalProbabilityDensity.                                               *)

\* static_int_pow: the loop from the state (p, x, n).
RECURSIVE IntPowLoop(_, _, _)
IntPowLoop(p, x, n) ==
  IF n > 0
  THEN LET p1 == IF n % 2 = 1 THEN FMul(p, x) ELSE p
           x1 == FMul(x, x)
       IN IF p1 = p1 /\ x1 = x1 THEN IntPowLoop(p1, x1, n \div 2) ELSE p1
  ELSE p

static_int_pow(x, n) == IntPowLoop(FromInt(1), x, n)

\* The loop condition of static_exp: term > kAccuracy.
TaylorContinues(term) == FGt(term, kAccuracy)

\* The loop body of static_exp without the division by i: term *= x.
TaylorBody_noDiv(st, x) == <<FAdd(st[1], st[2]), FMul(st[2], x), st[3] + 1>>

\* One pass of the loop body of static_exp on <<sum, term, i>>.
TaylorBody(st, x) ==
  <<FAdd(st[1], st[2]), FMul(st[2], FDiv(x, FromInt(st[3]))), st[3] + 1>>

\* The loop of static_exp from the state st = <<sum, term, i>>; its last state.
RECURSIVE TaylorLoop(_, _)
TaylorLoop(st, x) ==
  IF TaylorContinues(st[2]) THEN TaylorLoop(TaylorBody(st, x), x) ELSE st

\* static_exp after its loop without `if (!positive) sum = 1. / sum;`.
ExpFinish_noInvert(positive, integer_part, sum) ==
  FMul(static_int_pow(IF positive THEN Euler_e ELSE DToF(DDivF(DOne, Euler_e)),
                      integer_part),
       sum)

\* static_exp after its loop: the inversion for a negative argument, the base
\* and the integer power.
ExpFinish(positive, integer_part, sum) ==
  LET sum1 == IF positive THEN sum ELSE DToF(DDivF(DOne, sum))
      base == IF positive THEN Euler_e ELSE DToF(DDivF(DOne, Euler_e))
  IN FMul(static_int_pow(base, integer_part), sum1)

\* static_exp(x), for x whose integer part fits an int.
static_exp(x) ==
  LET positive == FGe(x, FZero)
      ax       == IF FLt(x, FZero) THEN FNeg(x) ELSE x
      integer_part == ToInt(ax)
      r        == FSub(ax, FromInt(integer_part))
      last     == TaylorLoop(<<FZero, FromInt(1), 1>>, r)
  IN ExpFinish(positive, integer_part, last[1])

\* The coefficient without the root of 2 pi: 1. / kStdev.
Coefficient_noRoot == DDivF(DOne, kStdev)

\* 1. / (kStdev * kRootOf2Pi), a double.
Coefficient == DDivF(DOne, FMul(kStdev, kRootOf2Pi))

\* The power without the mean: -0.5 * x * x / kStdev / kStdev.
Power_noMean(x) == DToF(DDivF(DDivF(DMulF(DMulF(DMinusHalf, x), x), kStdev), kStdev))

\* power = -0.5 * (x - kMean) * (x - kMean) / kStdev / kStdev, rounded to float.
Power(x) ==
  DToF(DDivF(DDivF(DMulF(DMulF(DMinusHalf, FSub(x, kMean)), FSub(x, kMean)), kStdev),
             kStdev))

\* eval(x): the probability density at x.
eval(x) == DToF(DMulF(Coefficient, static_exp(Power(x))))

----------------------------------------------------------------------------
(* Confidence.                                                             *)

\* std::min(a, b)
FMin(a, b) == IF FLt(b, a) THEN b ELSE a

\* The argument of eval in pass i of the table's loop: kLower + kDelta * i.
Sample(i) == FAdd(kLower, FMul(kDelta, FromInt(i)))

\* The entry without the halving of f_i: kDelta * (sum + f_i).
Entry_noHalf(sum, f) == FMul(kDelta, FAdd(sum, f))

\* v[i] = kDelta * (sum + f_i / 2)
Entry(sum, f) == FMul(kDelta, FAdd(sum, FDiv(f, FromInt(2))))

\* The range test with the limits themselves let through: x < kLower || x > kUpper.
OutOfRange_strict(x) == FLt(x, kLower) \/ FGt(x, kUpper)

\* x <= kLower || x >= kUpper
OutOfRange(x) == FLe(x, kLower) \/ FGe(x, kUpper)

\* The index without the offset of the lower limit: int(x / kDelta).
Index_noLower(x) == ToInt(FDiv(x, kDelta))

\* const int i = int((x - kLower) / kDelta);
Index(x) == ToInt(FDiv(FSub(x, kLower), kDelta))

\* The score with std::max for std::min, and the score of one side only: 2 * c.
Score_max(c) == FMul(FromInt(2), IF FLt(c, FSub(FromInt(1), c)) THEN FSub(FromInt(1), c) ELSE c)

Score_oneSided(c) == FMul(FromInt(2), c)

\* 2 * std::min(c, 1 - c)
Score(c) == FMul(FromInt(2), FMin(c, FSub(FromInt(1), c)))

\* evaluate(x) on the table tab (tab[i + 1] is the word of cdf_[i]), for an index
\* inside it.
evaluate(tab, x) == IF OutOfRange(x) THEN FZero ELSE Score(OfBits(tab[Index(x) + 1]))

\* tests::test_equal
test_equal(x, y) ==
  LET accuracy == FDiv(FromInt(1), FromInt(1000))
  IN FLt(FSub(y, accuracy), x) /\ FLt(x, FAdd(y, accuracy))

----------------------------------------------------------------------------
(* The inputs of the checks.                                               *)

\* The next float above a, and the next below, for finite a.
Succ(a) ==
  IF a[2] = 0 THEN <<0, 1, EMin>>
  ELSE IF a[1] = 0
       THEN (IF a[2] + 1 = TwoP24 THEN Fin(0, TwoP23, a[3] + 1) ELSE <<0, a[2] + 1, a[3]>>)
       ELSE (IF a[2] = TwoP23 /\ a[3] > EMin THEN <<1, TwoP24 - 1, a[3] - 1>>
             ELSE <<1, a[2] - 1, a[3]>>)

Pred(a) == FNeg(Succ(FNeg(a)))

RECURSIVE Up(_, _)
Up(a, k) == IF k = 0 THEN a ELSE Up(Succ(a), k - 1)

RECURSIVE Down(_, _)
Down(a, k) == IF k = 0 THEN a ELSE Down(Pred(a), k - 1)

\* How many neighbouring floats of kLower, kMean and kUpper are queried.
NearUlps == 3

\* Every GridStride-th sample point of the table is queried, with the float
\* just below it and the point half a step above it.
GridStride == 250

GridPoints == { j \in 0..kPoints : j % GridStride = 0 }

Inputs ==
  { Up(c, k)   : c \in {kLower, kMean, kUpper}, k \in 0..NearUlps } \cup
  { Down(c, k) : c \in {kLower, kMean, kUpper}, k \in 0..NearUlps } \cup
  { Sample(j) : j \in GridPoints } \cup
  { Pred(Sample(j)) : j \in GridPoints } \cup
  { FAdd(Sample(j), FDiv(kDelta, FromInt(2))) : j \in GridPoints } \cup
  { FromInt(-10), FromInt(10), FZero, FDiv(FromInt(69), FromInt(1000)),
    FSub(kLower, kDelta), FAdd(kUpper, kDelta) }

----------------------------------------------------------------------------
(* The program: the table cdf_ is built by the loop of its initialiser,    *)
(* then main reads one x and prints evaluate(x).                           *)

VARIABLES
  pc,       \* "ready": cdf_ is built, main waits for its input; "done": main
            \* has printed; "gen", "gendone": in and after the initialiser's loop
  cdf_,     \* the table (v in its initialiser), an array of floats held as
            \* their 32-bit words: cdf_[i + 1] is the source's [i]
  b_i,      \* the loop's i
  b_f,      \* the loop's f_i: the samples f_0, f_1, ... it has computed so far,
            \* as 32-bit words
  b_sum,    \* the loop's sum
  m_x,      \* main's x
  m_out,    \* what main prints
  m_reads,  \* the indexes of cdf_ that evaluate(x) read
  e_pc,     \* a call of static_exp: "idle", "loop" (at its while), "done"
  e_x,      \* its argument
  e_pos,    \* its positive
  e_n,      \* its integer_part
  e_r,      \* its x after x -= integer_part
  e_st,     \* its <<sum, term, i>>
  e_out     \* what it returned

tvars == <<pc, cdf_, b_i, b_f, b_sum, m_x, m_out, m_reads>>
evars == <<e_pc, e_x, e_pos, e_n, e_r, e_st, e_out>>
vars == <<tvars, evars>>

\* No call of static_exp is followed step by step.
ExpOff ==
  /\ e_pc = "off"
  /\ e_x = FZero
  /\ e_pos = TRUE
  /\ e_n = 0
  /\ e_r = FZero
  /\ e_st = <<FZero, FZero, 0>>
  /\ e_out = FZero

\* The body of the loop without `sum += f_i`.
LoopBody_noAccumulate(sum, f) == <<Entry(sum, f), sum>>

\* The body of the loop with the running sum `sum` and the density sample f:
\* <<v[i], sum after sum += f_i>>.
LoopBody(sum, f) == <<Entry(sum, f), FAdd(sum, f)>>

\* The one element of a set of one element.
Only(S) == CHOOSE r \in S : TRUE

\* The passes i = lo, ..., hi of the loop, entered with the running sum `sum`:
\* <<sum after them, <<v[lo], ..., v[hi]>>, <<f_lo, ..., f_hi>>>>.
RECURSIVE BuildRange(_, _, _)
BuildRange(lo, hi, sum) ==
  IF lo = hi
  THEN Only({ Only({ <<r[2], <<Bits(r[1])>>, <<Bits(f)>>>> : r \in {LoopBody(sum, f)} })
              : f \in {eval(Sample(lo))} })
  ELSE Only({ Only({ <<b[1], a[2] \o b[2], a[3] \o b[3]>>
                     : b \in {BuildRange((lo + hi) \div 2 + 1, hi, a[1])} })
              : a \in {BuildRange(lo, (lo + hi) \div 2, sum)} })

\* The initialiser of cdf_, run when the program is compiled: Cdf v{};
\* v[0] = 0; f_i = eval(kLower); sum = f_i / 2; the loop; return v. main starts
\* with the table built.
Init ==
  /\ pc = "ready"
  /\ \E f0 \in {eval(kLower)} :
       \E t \in {BuildRange(1, kPoints, FDiv(f0, FromInt(2)))} :
         /\ cdf_ = <<Bits(FZero)>> \o t[2]
         /\ b_f = <<Bits(f0)>> \o t[3]
         /\ b_sum = t[1]
  /\ b_i = kPoints + 1
  /\ m_x = FZero
  /\ m_out = FZero
  /\ m_reads = {}
  /\ ExpOff

\* main with an x that evaluate turns away: if (x <= kLower || x >= kUpper)
\* return 0;
EvaluateOutside ==
  /\ pc = "ready"
  /\ \E x \in Inputs :
       /\ OutOfRange(x)
       /\ m_x' = x
       /\ m_reads' = {}
       /\ m_out' = evaluate(cdf_, x)
  /\ pc' = "done"
  /\ UNCHANGED <<cdf_, b_i, b_f, b_sum, evars>>

\* main with an x that evaluate looks up: std::cin >> x; std::cout <<
\* Metric::evaluate(x). A read of cdf_ past its end is undefined: any float may
\* come back.
EvaluateInside ==
  /\ pc = "ready"
  /\ \E x \in Inputs :
       /\ ~OutOfRange(x)
       /\ m_x' = x
       /\ m_reads' = {Index(x)}
       /\ IF Index(x) \in 0..kPoints
          THEN m_out' = evaluate(cdf_, x)
          ELSE m_out' \in {Score(FZero), Score(FNaN), Score(FromInt(-10))}
  /\ pc' = "done"
  /\ UNCHANGED <<cdf_, b_i, b_f, b_sum, evars>>

Next == EvaluateOutside \/ EvaluateInside

Spec == Init /\ [][Next]_vars

----------------------------------------------------------------------------
(* The initialiser of cdf_ over an arbitrary density, pass by pass: the    *)
(* same loop, with each sample f_i drawn from a set of non-negative floats *)
(* instead of computed by eval, in a table of GenPoints + 1 entries.       *)

GenPoints == 4

\* 0, the smallest float, 0.001, 1, 15.34 (the reference density's peak is
\* near it), the largest float.
GenSamples ==
  { FZero, <<0, 1, EMin>>, FDiv(FromInt(1), FromInt(1000)), FromInt(1),
    FDiv(FromInt(1534), FromInt(100)), <<0, TwoP24 - 1, EMax>> }

\* Cdf v{}; v[0] = 0; float f_i = (the sample at kLower); sum = f_i / 2; i = 1
InitGen ==
  /\ pc = "gen"
  /\ cdf_ = [k \in 1..(GenPoints + 1) |-> Bits(FZero)]
  /\ \E f0 \in GenSamples :
       /\ b_f = <<Bits(f0)>>
       /\ b_sum = FDiv(f0, FromInt(2))
  /\ b_i = 1
  /\ m_x = FZero
  /\ m_out = FZero
  /\ m_reads = {}
  /\ ExpOff

\* One pass of the loop over a sample f_i >= 0.
GenStep ==
  /\ pc = "gen"
  /\ b_i <= GenPoints
  /\ \E f \in GenSamples :
       \E r \in {LoopBody(b_sum, f)} :
         /\ b_f' = Append(b_f, Bits(f))
         /\ cdf_' = [cdf_ EXCEPT ![b_i + 1] = Bits(r[1])]
         /\ b_sum' = r[2]
  /\ b_i' = b_i + 1
  /\ UNCHANGED <<pc, m_x, m_out, m_reads, evars>>

\* The loop ends: return v;
GenDone ==
  /\ pc = "gen"
  /\ b_i > GenPoints
  /\ pc' = "gendone"
  /\ UNCHANGED <<cdf_, b_i, b_f, b_sum, m_x, m_out, m_reads, evars>>

NextGen == GenStep \/ GenDone

SpecGen == InitGen /\ [][NextGen]_vars

----------------------------------------------------------------------------
(* static_exp, a call followed step by step.                               *)

\* The arguments are k / ExpGrid for |k| <= ExpSteps ...
ExpGrid == 7
ExpSteps == 616

\* ... the arguments ExpFar and more, past the range of a float's exponential,
\* the floats next to small integers, and 2^31 and 2^30.
ExpFar == 88

\* static_exp's loop is followed for at most LoopCap passes.
LoopCap == 40

ExpInputs ==
  { FDiv(FromInt(k), FromInt(ExpGrid)) : k \in (-ExpSteps)..ExpSteps } \cup
  { FromInt(k) : k \in {ExpFar - 1, -(ExpFar - 1), ExpFar, -ExpFar, ExpFar + 12, -(ExpFar + 12)} } \cup
  { Pred(FromInt(k)) : k \in 1..3 } \cup { FNeg(Pred(FromInt(k))) : k \in 1..3 } \cup
  { <<0, TwoP23, 8>>, <<1, TwoP23, 8>>, <<0, TwoP23, 7>>, <<1, TwoP23, 7>> }

\* static_cast<int>(x) of an x that fits no int is undefined: the builds give
\* INT_MIN (x86) or INT_MAX (saturating conversions).
CastToInt(a) == IF FitsInt(a) THEN {ToInt(a)} ELSE {(-2147483647) - 1, 2147483647}

InitExp ==
  /\ pc = "off"
  /\ cdf_ = <<>>
  /\ b_f = <<>>
  /\ b_sum = FZero
  /\ b_i = 0
  /\ m_x = FZero
  /\ m_out = FZero
  /\ m_reads = {}
  /\ e_pc = "idle"
  /\ e_x = FZero
  /\ e_pos = TRUE
  /\ e_n = 0
  /\ e_r = FZero
  /\ e_st = <<FZero, FZero, 0>>
  /\ e_out = FZero

\* static_exp(x) up to its loop: positive, |x|, integer_part, x -= integer_part,
\* sum = 0, term = 1, i = 1.
ExpCall ==
  /\ e_pc = "idle"
  /\ \E x \in ExpInputs :
       \E n \in CastToInt(IF FLt(x, FZero) THEN FNeg(x) ELSE x) :
         /\ e_x' = x
         /\ e_pos' = FGe(x, FZero)
         /\ e_n' = n
         /\ e_r' = FSub(IF FLt(x, FZero) THEN FNeg(x) ELSE x, FromInt(n))
  /\ e_st' = <<FZero, FromInt(1), 1>>
  /\ e_pc' = "loop"
  /\ UNCHANGED <<e_out, tvars>>

\* One pass of while (term > kAccuracy) { sum += term; term *= x / i; ++i; }
ExpLoop ==
  /\ e_pc = "loop"
  /\ TaylorContinues(e_st[2])
  /\ e_st[3] < LoopCap
  /\ e_st' = TaylorBody(e_st, e_r)
  /\ UNCHANGED <<e_pc, e_x, e_pos, e_n, e_r, e_out, tvars>>

\* The loop ends; static_exp returns.
ExpReturn ==
  /\ e_pc = "loop"
  /\ ~TaylorContinues(e_st[2])
  /\ e_out' = ExpFinish(e_pos, e_n, e_st[1])
  /\ e_pc' = "done"
  /\ UNCHANGED <<e_x, e_pos, e_n, e_r, e_st, tvars>>

NextExp == ExpCall \/ ExpLoop \/ ExpReturn

SpecExp == InitExp /\ [][NextExp]_vars

----------------------------------------------------------------------------
(* What the checks read from a state.                                      *)

FOne == FromInt(1)
FHalf == FDiv(FromInt(1), FromInt(2))

\* lower < x < upper
InsideLimits(x) == FLt(kLower, x) /\ FLt(x, kUpper)

\* The float in cdf_[k] (source index) and the score of that entry.
Cdf(k) == OfBits(cdf_[k + 1])
ScoreAt(k) == Score(Cdf(k))

\* 0 <= a <= 1
InUnit(a) == FLe(FZero, a) /\ FLe(a, FOne)

\* |a - b|
Dist(a, b) == FAbs(FSub(a, b))

\* The number of floats from a to b, for a, b >= 0.
UlpDist(a, b) == IF Bits(a) < Bits(b) THEN Bits(b) - Bits(a) ELSE Bits(a) - Bits(b)

\* 2 * mean - x
Mirror(x) == FSub(FMul(FromInt(2), kMean), x)

\* The sample f_k = eval(kLower + kDelta * k) that the initialiser computed.
F(k) == OfBits(b_f[k + 1])

\* cdf[i-1] + delta * (f_{i-1} + f_i) / 2, the cumulative trapezoidal sum at i.
Trapezoid(i) ==
  FAdd(Cdf(i - 1), FDiv(FMul(kDelta, FAdd(F(i - 1), F(i))), FromInt(2)))

\* |ScoreAt(k + 1) - ScoreAt(k)|, and the largest of them for k in lo..hi.
Step(k) == Dist(ScoreAt(k + 1), ScoreAt(k))

RECURSIVE MaxStep(_, _)
MaxStep(lo, hi) ==
  IF lo = hi THEN Step(lo)
  ELSE LET mid == (lo + hi) \div 2
           a   == MaxStep(lo, mid)
           b   == MaxStep(mid + 1, hi)
       IN IF FLt(a, b) THEN b ELSE a

\* The largest step next to entry k: of k-1 -> k and k -> k+1.
LocalStep(k) ==
  LET a == IF k >= 1 /\ k <= kPoints THEN Step(k - 1) ELSE FZero
      b == IF k >= 0 /\ k < kPoints THEN Step(k) ELSE FZero
  IN IF FLt(a, b) THEN b ELSE a

\* a = b within the relative tolerance 1e-5.
RelClose(a, b) ==
  /\ IsFinite(a) /\ IsFinite(b)
  /\ FLe(Dist(a, b), FMul(FAbs(b), FDiv(FromInt(1), FromInt(100000))))

\* a = b, or a = b within the relative tolerance 1e-5, or a and b are less
\* than the smallest normal float 2^-126 apart.
Reciprocal(a, b) ==
  \/ a = b
  \/ RelClose(a, b)
  \/ IsFinite(a) /\ IsFinite(b) /\ FLt(Dist(a, b), <<0, TwoP23, EMin>>)

\* 0 <= r < 1
UnitRemainder(r) == FLe(FZero, r) /\ FLt(r, FOne)

----------------------------------------------------------------------------
(* The claims.                                                             *)

\* C1: for every x with x <= lower or x >= upper (x = lower, x = upper and x far
\* outside, such as -10, included) evaluate(x) returns exactly 0 and reads no
\* entry of the table.
C1_BoundaryPolicy ==
  (pc = "done" /\ (FLe(m_x, kLower) \/ FGe(m_x, kUpper)))
    => (m_out = FZero /\ m_reads = {})

\* C1's case: main was given x = upper exactly and printed 0.
C1_Witness == pc = "done" /\ m_x = kUpper /\ m_out = FZero /\ m_reads = {}

\* C2: for every x with lower < x < upper, evaluate(x) reads exactly one entry
\* of the table, the entry i = floor((x - lower) / delta) of the float quotient,
\* that i is an index of the table (0 <= i <= N), and evaluate(x) returns
\* 2 * min(cdf[i], 1 - cdf[i]).
C2_InRangeLookup ==
  (pc = "done" /\ InsideLimits(m_x))
    => /\ Cardinality(m_reads) = 1
       /\ \A i \in m_reads :
            /\ i \in 0..kPoints
            /\ FLe(FromInt(i), FDiv(FSub(m_x, kLower), kDelta))
            /\ FLt(FDiv(FSub(m_x, kLower), kDelta), FromInt(i + 1))
            /\ m_out = FMul(FromInt(2), FMin(Cdf(i), FSub(FOne, Cdf(i))))

\* C2's case: the largest float below upper was looked up, in the last bucket.
C2_Witness ==
  pc = "done" /\ m_x = Pred(kUpper) /\ InsideLimits(m_x) /\ m_reads = {kPoints - 1}

\* C3: every score is in [0, 1]: the score of every entry of the built table,
\* and what evaluate returns for every input, inside the limits or outside.
C3_ScoreRange ==
  /\ pc = "ready" => \A k \in 0..kPoints : InUnit(ScoreAt(k))
  /\ pc = "done" => InUnit(m_out) /\ IsFinite(m_out)

\* C3's case: an input inside the limits got a score strictly between 0 and 1.
C3_Witness ==
  pc = "done" /\ InsideLimits(m_x) /\ FLt(FZero, m_out) /\ FLt(m_out, FOne)

\* C4: for any density whose samples are non-negative, cdf[0] = 0 and the
\* table is non-decreasing: during the loop and after it, cdf[k-1] <= cdf[k]
\* for every k in 1..N written so far, and the running sum is not negative.
C4_TableMonotone ==
  pc \in {"gen", "gendone"} =>
    /\ Cdf(0) = FZero
    /\ \A k \in 1..(b_i - 1) : FLe(Cdf(k - 1), Cdf(k))
    /\ FGe(b_sum, FZero)

\* C4's case: a full table was built from samples that went up and came down
\* again to 0, and it grew strictly.
C4_Witness ==
  /\ pc = "gendone" /\ F(GenPoints) = FZero
  /\ FLt(Cdf(1), Cdf(2)) /\ FLt(Cdf(2), Cdf(GenPoints))
  /\ IsFinite(Cdf(GenPoints))

\* The table of the reference density: its samples are non-negative, cdf[0] = 0
\* and cdf[k-1] <= cdf[k] for every k in 1..N.
ReferenceTableMonotone ==
  pc \in {"ready", "done"} =>
    /\ Cdf(0) = FZero
    /\ \A k \in 0..kPoints : FGe(F(k), FZero)
    /\ \A k \in 1..kPoints : FLe(Cdf(k - 1), Cdf(k))

\* C5 as stated: for every i in 1..N the entry the loop writes equals the
\* cumulative trapezoidal sum, cdf[i] = cdf[i-1] + delta * (f_{i-1} + f_i) / 2,
\* where f_k = density(lower + delta * k).
C5_ExactRecurrence ==
  pc = "ready" =>
    \A i \in 1..kPoints :
      /\ F(i) = eval(Sample(i))
      /\ Cdf(i) = Trapezoid(i)

\* C5 amended: for every i in 1..N the entry the loop writes is the cumulative
\* trapezoidal sum cdf[i-1] + delta * (f_{i-1} + f_i) / 2 up to rounding: the
\* two are at most 2 floats apart.
C5_Recurrence ==
  pc = "ready" => \A i \in 1..kPoints : UlpDist(Cdf(i), Trapezoid(i)) <= 2

\* C5's case: the table is built, an entry of it is the trapezoidal sum exactly
\* and another is 2 floats from it.
C5_Witness ==
  /\ pc = "ready"
  /\ \E i \in 1..kPoints : Cdf(i) = Trapezoid(i) /\ FLt(FZero, Cdf(i))
  /\ \E i \in 1..kPoints : UlpDist(Cdf(i), Trapezoid(i)) = 2

\* C6: in the reference configuration evaluate(mean) is 1.0 within 0.001 (the
\* source's test_equal), and the bucket of x = mean holds a cumulative value
\* within 0.0005 of 0.5.
C6_ScoreAtMean ==
  /\ pc = "ready" =>
       /\ test_equal(evaluate(cdf_, kMean), FOne)
       /\ FLt(Dist(Cdf(Index(kMean)), FHalf), FDiv(FromInt(5), FromInt(10000)))
  /\ (pc = "done" /\ m_x = kMean) => test_equal(m_out, FOne)

\* C6's case: main was given x = mean and printed a score test_equal to 1.
C6_Witness ==
  pc = "done" /\ m_x = kMean /\ m_reads = {Index(kMean)} /\ test_equal(m_out, FOne)

\* C7: the score never increases when moving away from the mean. In the built
\* table the scores do not increase from the bucket of the mean upward and do
\* not decrease up to it; and for the input x that main was given and every
\* other input y inside the limits, mean <= y < x gives evaluate(y) >=
\* evaluate(x), and x < y <= mean gives evaluate(x) <= evaluate(y).
C7_Monotone ==
  /\ pc = "ready" =>
       \A k \in 0..(kPoints - 1) :
         IF k >= Index(kMean) THEN FGe(ScoreAt(k), ScoreAt(k + 1))
         ELSE FLe(ScoreAt(k), ScoreAt(k + 1))
  /\ (pc = "done" /\ InsideLimits(m_x)) =>
       \A y \in Inputs :
         InsideLimits(y) =>
           /\ (FLe(kMean, y) /\ FLt(y, m_x)) => FGe(evaluate(cdf_, y), m_out)
           /\ (FLt(m_x, y) /\ FLe(y, kMean)) => FLe(m_out, evaluate(cdf_, y))

\* C7's case: an input above the mean scored strictly less than the mean.
C7_Witness ==
  /\ pc = "done" /\ InsideLimits(m_x) /\ FLt(kMean, m_x)
  /\ FLt(m_out, evaluate(cdf_, kMean)) /\ FLt(FZero, m_out)

\* C8 as stated: for every x strictly between lower and upper, evaluate(x) and
\* evaluate(2 * mean - x) differ by at most the score difference between two
\* adjacent table entries: those next to the bucket of x or of 2 * mean - x.
C8_LocalSymmetry ==
  (pc = "done" /\ InsideLimits(m_x)) =>
    LET d == Dist(m_out, evaluate(cdf_, Mirror(m_x)))
    IN \/ FLe(d, LocalStep(Index(m_x)))
       \/ InsideLimits(Mirror(m_x)) /\ FLe(d, LocalStep(Index(Mirror(m_x))))

\* C8 amended: for every x strictly between lower and upper, evaluate(x) and
\* evaluate(2 * mean - x) differ by at most the largest score difference between
\* two adjacent table entries; and so do the scores of the buckets k and
\* N - 1 - k, which x and 2 * mean - x fall into.
C8_Symmetry ==
  pc = "ready" =>
    LET top == MaxStep(0, kPoints - 1)
    IN /\ \A x \in Inputs :
            InsideLimits(x) =>
              FLe(Dist(evaluate(cdf_, x), evaluate(cdf_, Mirror(x))), top)
       /\ \A k \in 0..(kPoints - 1) :
            FLe(Dist(ScoreAt(k), ScoreAt(kPoints - 1 - k)), top)

\* C8's case: an input inside the limits and its mirror image, both scored above
\* 0, with scores that differ.
C8_Witness ==
  /\ pc = "done" /\ InsideLimits(m_x) /\ InsideLimits(Mirror(m_x))
  /\ FLt(FZero, m_out)
  /\ m_out # evaluate(cdf_, Mirror(m_x))

C10_TaylorLoop ==
  UnitRemainder(e_r) =>
    /\ e_pc = "loop" =>
         /\ e_st[3] <= 11
         /\ e_st[3] = 11 => ~TaylorContinues(e_st[2])
    /\ e_pc = "done" =>
         /\ e_st[3] >= 2 /\ e_st[3] <= 11
         /\ FGe(e_st[1], FOne)
         /\ IsFinite(FDiv(FOne, e_st[1]))

\* C10's case: a call with a remainder in [0, 1) returned after the most passes.
C10_Witness ==
  e_pc = "done" /\ UnitRemainder(e_r) /\ ~IsZero(e_r) /\ e_st[3] = 11

=============================================================================
